---- MODULE Spec2Model ----
(***************************************************************************)
(* Model of src/llm/nanogpt.rs: the NanoGPT provider (construction,        *)
(* name(), model(), chat_stream) and its server-sent-event decoder         *)
(* (parse_sse_line and the per-chunk map/filter pipeline).                 *)
(*                                                                         *)
(* Text is modelled as a sequence of lexemes.  A lexeme is a record        *)
(* [t, c]: t = "p" is a piece of plain text c[1] (punctuation, a keyword,  *)
(* a white-space character, a raw byte), t = "s" is a JSON string literal  *)
(* whose characters are the sequence c.                                    *)
(***************************************************************************)
EXTENDS Integers, Sequences, FiniteSets, TLC

VARIABLES
    line,      \* SpecLine: the line handed to parse_sse_line
    parsed,    \* SpecLine: <<>> before the call, <<result>> after it
    provider,  \* the NanoGPTProvider value (or what new() returned)
    calls,     \* per chat_stream call: its position, connection, stream
    events     \* number of transport events delivered so far (all calls)

vars == <<line, parsed, provider, calls, events>>

----------------------------------------------------------------------------
(* Lexemes *)

P(x) == [t |-> "p", c |-> <<x>>]
S(chars) == [t |-> "s", c |-> chars]

LF == P("\\n")
CR == P("\\r")
SP == P(" ")
Colon == P(":")
Comma == P(",")
DataTag == P("data:")
BadByte == "0xFF"
Replacement == "U+FFFD"

IsP(tok, x) == tok.t = "p" /\ tok.c = <<x>>
IsWs(tok) == tok \in {SP, CR, LF, P("\\t")}

\* Option<String>
None == [some |-> FALSE, s |-> <<>>]
Some(str) == [some |-> TRUE, s |-> str]

----------------------------------------------------------------------------
(* String::from_utf8_lossy: every invalid byte becomes U+FFFD. *)

LossyChar(ch) == IF ch = BadByte THEN Replacement ELSE ch

from_utf8_lossy(bytes) ==
    [i \in 1..Len(bytes) |->
        [t |-> bytes[i].t,
         c |-> [j \in 1..Len(bytes[i].c) |-> LossyChar(bytes[i].c[j])]]]

(* str::lines: split at "\n", dropping one "\r" that precedes the "\n"; a  *)
(* last line without terminator is returned as it is (a bare trailing "\r" *)
(* is kept); a text ending in "\n" has no extra empty last line.           *)
StripCR(l) ==
    IF Len(l) > 0 /\ l[Len(l)] = CR THEN SubSeq(l, 1, Len(l) - 1) ELSE l

RECURSIVE SplitLines(_, _, _)
SplitLines(text, i, cur) ==
    IF i > Len(text)
    THEN IF cur = <<>> THEN <<>> ELSE <<cur>>
    ELSE IF text[i] = LF
         THEN <<StripCR(cur)>> \o SplitLines(text, i + 1, <<>>)
         ELSE SplitLines(text, i + 1, Append(cur, text[i]))

lines(text) == SplitLines(text, 1, <<>>)

----------------------------------------------------------------------------
(* serde_json: the JSON reader.  A parse result is [ok, v, n]: success,    *)
(* the value, the index of the first lexeme not consumed.  A value is      *)
(* [k, s, e, m]: kind, string characters, array elements, object members.  *)

JStr(chars) == [k |-> "str", s |-> chars, e |-> <<>>, m |-> <<>>]
JNull == [k |-> "null", s |-> <<>>, e |-> <<>>, m |-> <<>>]
JNum == [k |-> "num", s |-> <<>>, e |-> <<>>, m |-> <<>>]
JArr(elems) == [k |-> "arr", s |-> <<>>, e |-> elems, m |-> <<>>]
JObj(members) == [k |-> "obj", s |-> <<>>, e |-> <<>>, m |-> members]

Fail == [ok |-> FALSE, v |-> JNull, n |-> 0]
Done(v, n) == [ok |-> TRUE, v |-> v, n |-> n]

RECURSIVE SkipWs(_, _)
SkipWs(t, i) ==
    IF i <= Len(t) /\ IsWs(t[i]) THEN SkipWs(t, i + 1) ELSE i

At(t, i, x) == i <= Len(t) /\ IsP(t[i], x)

RECURSIVE ParseValue(_, _), ParseElems(_, _, _), ParseMembers(_, _, _)

ParseValue(t, i0) ==
    LET i == SkipWs(t, i0) IN
    IF i > Len(t) THEN Fail
    ELSE IF t[i].t = "s" THEN Done(JStr(t[i].c), i + 1)
    ELSE IF IsP(t[i], "null") THEN Done(JNull, i + 1)
    ELSE IF IsP(t[i], "1") THEN Done(JNum, i + 1)
    ELSE IF IsP(t[i], "[")
         THEN LET j == SkipWs(t, i + 1) IN
              IF At(t, j, "]") THEN Done(JArr(<<>>), j + 1)
              ELSE ParseElems(t, j, <<>>)
    ELSE IF IsP(t[i], "{")
         THEN LET j == SkipWs(t, i + 1) IN
              IF At(t, j, "}") THEN Done(JObj(<<>>), j + 1)
              ELSE ParseMembers(t, j, <<>>)
    ELSE Fail

ParseElems(t, i, acc) ==
    LET r == ParseValue(t, i) IN
    IF ~r.ok THEN Fail
    ELSE LET j == SkipWs(t, r.n) IN
         IF At(t, j, "]") THEN Done(JArr(Append(acc, r.v)), j + 1)
         ELSE IF At(t, j, ",") THEN ParseElems(t, j + 1, Append(acc, r.v))
         ELSE Fail

ParseMembers(t, i0, acc) ==
    LET i == SkipWs(t, i0) IN
    IF i > Len(t) \/ t[i].t # "s" THEN Fail
    ELSE LET j == SkipWs(t, i + 1) IN
         IF ~At(t, j, ":") THEN Fail
         ELSE LET r == ParseValue(t, j + 1) IN
              IF ~r.ok THEN Fail
              ELSE LET q == SkipWs(t, r.n)
                       acc2 == Append(acc, [key |-> t[i].c, val |-> r.v])
                   IN  IF At(t, q, "}") THEN Done(JObj(acc2), q + 1)
                       ELSE IF At(t, q, ",") THEN ParseMembers(t, q + 1, acc2)
                       ELSE Fail

(* serde_json::from_str reads one value and rejects trailing characters    *)
(* other than white space.                                                 *)
ParseDocument(t) ==
    LET r == ParseValue(t, 1) IN
    IF r.ok /\ SkipWs(t, r.n) = Len(t) + 1 THEN r ELSE Fail

----------------------------------------------------------------------------
(* serde: #[derive(Deserialize)] for NanoGPTStreamEvent, Choice, Delta.    *)
(* A struct is read from a JSON object (unknown keys ignored, a repeated   *)
(* known key is an error, a missing Option field is None, a missing        *)
(* required field is an error) or from a JSON array of exactly its fields. *)
(* De* results are [ok, val].                                              *)

FieldVals(m, name) ==
    LET sel == SelectSeq(m, LAMBDA kv : kv.key = <<name>>)
    IN  [i \in 1..Len(sel) |-> sel[i].val]

NoDelta == [some |-> FALSE, content |-> None]
NoEvent == [object |-> <<>>, choices |-> <<>>]

\* Option<String>
DeOptString(vals) ==
    IF Len(vals) = 0 THEN [ok |-> TRUE, val |-> None]
    ELSE IF Len(vals) > 1 THEN [ok |-> FALSE, val |-> None]
    ELSE IF vals[1].k = "null" THEN [ok |-> TRUE, val |-> None]
    ELSE IF vals[1].k = "str" THEN [ok |-> TRUE, val |-> Some(vals[1].s)]
    ELSE [ok |-> FALSE, val |-> None]

\* struct Delta { content: Option<String> }
DeDelta(v) ==
    LET c == IF v.k = "obj" THEN DeOptString(FieldVals(v.m, "content"))
             ELSE IF v.k = "arr" /\ Len(v.e) = 1 THEN DeOptString(v.e)
             ELSE [ok |-> FALSE, val |-> None]
    IN  [ok |-> c.ok, val |-> [some |-> TRUE, content |-> c.val]]

\* Option<Delta>
DeOptDelta(vals) ==
    IF Len(vals) = 0 THEN [ok |-> TRUE, val |-> NoDelta]
    ELSE IF Len(vals) > 1 THEN [ok |-> FALSE, val |-> NoDelta]
    ELSE IF vals[1].k = "null" THEN [ok |-> TRUE, val |-> NoDelta]
    ELSE DeDelta(vals[1])

\* struct Choice { delta: Option<Delta> }
DeChoice(v) ==
    LET d == IF v.k = "obj" THEN DeOptDelta(FieldVals(v.m, "delta"))
             ELSE IF v.k = "arr" /\ Len(v.e) = 1 THEN DeOptDelta(v.e)
             ELSE [ok |-> FALSE, val |-> NoDelta]
    IN  [ok |-> d.ok, val |-> [delta |-> d.val]]

\* Vec<Choice>
DeChoices(v) ==
    IF v.k = "arr" /\ \A i \in 1..Len(v.e) : DeChoice(v.e[i]).ok
    THEN [ok |-> TRUE, val |-> [i \in 1..Len(v.e) |-> DeChoice(v.e[i]).val]]
    ELSE [ok |-> FALSE, val |-> <<>>]

\* struct NanoGPTStreamEvent { object: String, choices: Vec<Choice> }
DeEvent(v) ==
    LET o == IF v.k = "obj" THEN FieldVals(v.m, "object")
             ELSE IF v.k = "arr" /\ Len(v.e) = 2 THEN <<v.e[1]>>
             ELSE <<>>
        c == IF v.k = "obj" THEN FieldVals(v.m, "choices")
             ELSE IF v.k = "arr" /\ Len(v.e) = 2 THEN <<v.e[2]>>
             ELSE <<>>
    IN  IF /\ Len(o) = 1 /\ o[1].k = "str"
           /\ Len(c) = 1 /\ DeChoices(c[1]).ok
        THEN [ok |-> TRUE,
              val |-> [object |-> o[1].s, choices |-> DeChoices(c[1]).val]]
        ELSE [ok |-> FALSE, val |-> NoEvent]

\* serde_json::from_str::<NanoGPTStreamEvent>(data)
from_str(data) ==
    LET r == ParseDocument(data) IN
    IF r.ok THEN DeEvent(r.v) ELSE [ok |-> FALSE, val |-> NoEvent]

----------------------------------------------------------------------------
(* NanoGPTProvider::parse_sse_line *)

ChunkKind == <<"chat.completion.chunk">>

HasDataPrefix(l) == Len(l) >= 2 /\ l[1] = DataTag /\ l[2] = SP
StripDataPrefix(l) == SubSeq(l, 3, Len(l))

\* the body of `if let Some(data)`, event being the result of from_str
\* (not ok: the `.ok()?` returns None)
EventContent(event) ==
    IF ~event.ok THEN None
    ELSE IF event.val.object # ChunkKind THEN None
    ELSE IF Len(event.val.choices) = 0 THEN None
    ELSE IF /\ event.val.choices[1].delta.some
            /\ event.val.choices[1].delta.content.some
         THEN Some(event.val.choices[1].delta.content.s)
         ELSE None

\* (variant) the first choice that carries content instead of the choice 0
FirstWithContent(choices) ==
    SelectSeq(choices, LAMBDA ch : ch.delta.some /\ ch.delta.content.some)

EventContent_any_choice(event) ==
    IF ~event.ok THEN None
    ELSE IF event.val.object # ChunkKind THEN None
    ELSE IF FirstWithContent(event.val.choices) # <<>>
         THEN Some(FirstWithContent(event.val.choices)[1].delta.content.s)
         ELSE None

parse_sse_line_any_choice(l) ==
    IF l = <<>> \/ l[1] = Colon THEN None
    ELSE IF HasDataPrefix(l)
    THEN EventContent_any_choice(from_str(StripDataPrefix(l)))
    ELSE None

parse_sse_line(l) ==
    IF l = <<>> \/ l[1] = Colon THEN None
    ELSE IF HasDataPrefix(l) THEN EventContent(from_str(StripDataPrefix(l)))
    ELSE None

----------------------------------------------------------------------------
(* Inputs: wire lines.  A payload is rendered from an event shape (which   *)
(* fields are present and what they hold) or is one of the malformed       *)
(* payloads; a line is a prefix, a payload and a suffix.                   *)

MaxChoices == 2

Key(name) == S(<<name>>)
Open == P("{")
Close == P("}")

Hi == <<"h", "i">>
He == <<"H", "e">>
Llo == <<"l", "l", "o">>

ChoiceShapes ==
    {"noDelta", "deltaNull", "deltaEmpty", "contentNull", "deltaString",
     "empty", "hi", "x"}

RenderChoice(cs) ==
    CASE cs = "noDelta" -> <<Open, Close>>
      [] cs = "deltaNull" -> <<Open, Key("delta"), Colon, P("null"), Close>>
      [] cs = "deltaEmpty" -> <<Open, Key("delta"), Colon, Open, Close, Close>>
      [] cs = "contentNull" ->
            <<Open, Key("delta"), Colon, Open, Key("content"), Colon, P("null"),
              Close, Close>>
      [] cs = "deltaString" -> <<Open, Key("delta"), Colon, S(Hi), Close>>
      [] cs = "empty" ->
            <<Open, Key("delta"), Colon, Open, Key("content"), Colon, S(<<>>),
              Close, Close>>
      [] cs = "hi" ->
            <<Open, Key("delta"), Colon, Open, Key("content"), Colon, S(Hi),
              Close, Close>>
      [] cs = "x" ->
            <<Open, Key("delta"), Colon, Open, Key("content"), Colon, S(<<"x">>),
              Close, Close>>

RECURSIVE RenderChoiceList(_, _)
RenderChoiceList(cl, i) ==
    IF i > Len(cl) THEN <<>>
    ELSE (IF i > 1 THEN <<Comma>> ELSE <<>>) \o RenderChoice(cl[i])
         \o RenderChoiceList(cl, i + 1)

ObjectShapes == {"absent", "chunk", "other", "null"}

RenderObject(os) ==
    CASE os = "absent" -> <<>>
      [] os = "chunk" -> <<Key("object"), Colon, S(ChunkKind)>>
      [] os = "other" -> <<Key("object"), Colon, S(<<"other">>)>>
      [] os = "null" -> <<Key("object"), Colon, P("null")>>

\* hasChoices = FALSE: no "choices" member at all
RenderEvent(os, hasChoices, cl) ==
    LET o == RenderObject(os)
        c == IF hasChoices
             THEN <<Key("choices"), Colon, P("[")>> \o RenderChoiceList(cl, 1)
                  \o <<P("]")>>
             ELSE <<>>
    IN  <<Open>> \o o \o (IF o # <<>> /\ c # <<>> THEN <<Comma>> ELSE <<>>)
        \o c \o <<Close>>

ChoiceLists == UNION {[1..n -> ChoiceShapes] : n \in 0..MaxChoices}

EventPayloads ==
    {RenderEvent(os, TRUE, cl) : os \in ObjectShapes, cl \in ChoiceLists}
    \cup {RenderEvent(os, FALSE, <<>>) : os \in ObjectShapes}

HiEvent == RenderEvent("chunk", TRUE, <<"hi">>)

ProperPrefixes(t) == {SubSeq(t, 1, k) : k \in 0..(Len(t) - 1)}

MalformedPayloads ==
    ProperPrefixes(HiEvent)
    \cup { <<P("not-json")>>,
           <<P(Replacement)>>,
           HiEvent \o <<P("not-json")>>,
           HiEvent \o HiEvent,
           \* an unknown key is ignored
           <<Open, Key("id"), Colon, P("1"), Comma>> \o Tail(HiEvent),
           \* a repeated known key is an error
           <<Open, Key("object"), Colon, S(ChunkKind), Comma>> \o Tail(HiEvent),
           \* white space inside the document
           <<SP, Open, SP>> \o Tail(HiEvent),
           \* the array form of the structs
           <<P("["), S(ChunkKind), Comma, P("["), P("["), P("["), S(Hi),
             P("]"), P("]"), P("]"), P("]")>>,
           <<P("["), S(ChunkKind), P("]")>>,
           <<P("1")>>, <<P("null")>>, <<S(Hi)>> }

Payloads == EventPayloads \cup MalformedPayloads

Prefixes ==
    { <<DataTag, SP>>, <<DataTag>>, <<>>, <<SP, DataTag, SP>>, <<Colon>>,
      <<Colon, SP>>, <<P("event:"), SP>>, <<DataTag, SP, DataTag, SP>> }

Suffixes == { <<>>, <<SP>>, <<CR>> }

KeepAlive == <<Colon, SP, P("keep-alive")>>

Lines ==
    {p \o d \o x : p \in Prefixes, d \in Payloads, x \in Suffixes}
    \cup {KeepAlive}

----------------------------------------------------------------------------
(* Inputs: configurations, messages, HTTP outcomes, transport chunks. *)

MaxCalls == 2
MaxEvents == 2
MaxChunks == 3

Configs ==
    {[provider |-> "nanogpt", model |-> "gpt-4o", api_key |-> "test-key"],
     [provider |-> "openai", model |-> "o3", api_key |-> "other-key"]}

SystemMessages == {"sys"}
UserMessages == {"u1"}

Statuses == {"200", "401"}
is_success(status) == status = "200"

\* Result<String, reqwest::Error> of response.text()
BodyResults ==
    {[ok |-> TRUE, text |-> "quota exceeded"], [ok |-> FALSE, text |-> ""]}

ContentLine(chars) ==
    <<DataTag, SP>>
    \o <<Open, Key("object"), Colon, S(ChunkKind), Comma, Key("choices"), Colon,
         P("["), Open, Key("delta"), Colon, Open, Key("content"), Colon,
         S(chars), Close, Close, P("]"), Close>>

HiLine == <<DataTag, SP>> \o HiEvent
SplitAt == 9

\* two content events back to back, each followed by a blank line
HelloChunk == ContentLine(He) \o <<LF, LF>> \o ContentLine(Llo) \o <<LF, LF>>
\* a comment line and a blank line
KeepAliveChunk == KeepAlive \o <<LF, LF>>
\* an event whose content is the empty string
EmptyContentChunk == ContentLine(<<>>) \o <<CR, LF>>
\* malformed payload, other event kind, content only in the choice at index 1
NoiseChunk ==
    <<DataTag, SP, P("not-json"), LF>>
    \o <<DataTag, SP>> \o RenderEvent("other", TRUE, <<"x">>) \o <<LF>>
    \o <<DataTag, SP>> \o RenderEvent("chunk", TRUE, <<"noDelta", "x">>) \o <<LF>>
    \o <<P("event:"), SP, P("ping"), LF>>
\* invalid UTF-8: a stray byte on a line of its own and one inside a content
LossyChunk ==
    <<P(BadByte), LF>> \o ContentLine(<<"h", BadByte>>) \o <<CR, LF>>
\* one event line cut in two by the transport
SplitHead == SubSeq(HiLine, 1, SplitAt)
SplitRest == SubSeq(HiLine, SplitAt + 1, Len(HiLine)) \o <<LF, LF>>

ChunkCatalogue ==
    {HelloChunk, KeepAliveChunk, EmptyContentChunk, NoiseChunk, LossyChunk,
     SplitHead, SplitRest}

\* Result<Bytes, reqwest::Error>: one item of response.bytes_stream()
OkBytes(bytes) == [ok |-> TRUE, bytes |-> bytes, err |-> ""]
ErrBytes(e) == [ok |-> FALSE, bytes |-> <<>>, err |-> e]

TransportErrors == {"connection reset", "timed out"}

TransportResults ==
    {OkBytes(b) : b \in ChunkCatalogue} \cup {ErrBytes(e) : e \in TransportErrors}

\* the transport outcomes used where several calls run side by side
SharedResults == {OkBytes(HelloChunk), OkBytes(SplitHead), OkBytes(SplitRest)}

----------------------------------------------------------------------------
(* NanoGPTProvider *)

NoProvider ==
    [state |-> "none", model |-> "", api_key |-> "",
     config |-> [provider |-> "", model |-> "", api_key |-> ""], built |-> FALSE]

\* (variant) new with the model taken from the wrong configuration field
new_swapped(config, built) ==
    /\ provider.state = "none"
    /\ provider' =
         IF built
         THEN [state |-> "ok", model |-> config.provider, api_key |-> config.api_key,
               config |-> config, built |-> built]
         ELSE [state |-> "ConfigError", model |-> "", api_key |-> "",
               config |-> config, built |-> built]
    /\ UNCHANGED <<line, parsed, calls, events>>

\* NanoGPTProvider::new; built: whether Client::builder().build() succeeded
new(config, built) ==
    /\ provider.state = "none"
    /\ provider' =
         IF built
         THEN [state |-> "ok", model |-> config.model, api_key |-> config.api_key,
               config |-> config, built |-> built]
         ELSE [state |-> "ConfigError", model |-> "", api_key |-> "",
               config |-> config, built |-> built]
    /\ UNCHANGED <<line, parsed, calls, events>>

name(p) == "nanogpt"

model(p) == p.model

create_request(p, system_message, user_message) ==
    [model |-> p.model,
     messages |-> <<[role |-> "system", content |-> system_message],
                    [role |-> "user", content |-> user_message]>>,
     stream |-> TRUE,
     max_tokens |-> 4096]

----------------------------------------------------------------------------
(* chat_stream.  Result<String, LLMError> items are [ok, s, err].          *)

OkItem(str) == [ok |-> TRUE, s |-> str, err |-> <<>>]
ErrItem(kind, text) == [ok |-> FALSE, s |-> <<>>, err |-> <<kind, text>>]

\* (variant) the for loop putting each fragment in front of the content
RECURSIVE PushFragments_prepend(_, _, _)
PushFront(content, text) == IF text.some THEN text.s \o content ELSE content

PushFragments_prepend(ls, i, content) ==
    IF i > Len(ls) THEN content
    ELSE PushFragments_prepend(ls, i + 1, PushFront(content, parse_sse_line(ls[i])))

\* if let Some(text) = parse_sse_line(line) { content.push_str(&text) }
PushStr(content, text) == IF text.some THEN content \o text.s ELSE content

\* the for loop of the map closure
RECURSIVE PushFragments(_, _, _)
PushFragments(ls, i, content) ==
    IF i > Len(ls) THEN content
    ELSE PushFragments(ls, i + 1, PushStr(content, parse_sse_line(ls[i])))

\* the end of the Ok arm: if !content.is_empty()
ContentItem(content) == IF content # <<>> THEN OkItem(content) ELSE OkItem(<<>>)

\* (variant) the map closure decoding strictly: invalid UTF-8 is an error
MapChunk_strict(result) ==
    IF result.ok
    THEN IF \E i \in 1..Len(result.bytes) :
              \E j \in 1..Len(result.bytes[i].c) : result.bytes[i].c[j] = BadByte
         THEN ErrItem("NetworkError", "invalid utf-8")
         ELSE OkItem(PushFragments(lines(result.bytes), 1, <<>>))
    ELSE ErrItem("NetworkError", result.err)

\* the closure given to bytes_stream().map
MapChunk(result) ==
    IF result.ok
    THEN ContentItem(PushFragments(lines(from_utf8_lossy(result.bytes)), 1, <<>>))
    ELSE ErrItem("NetworkError", result.err)

\* (variant) a filter that lets every item through
FilterKeep_all(item) == TRUE

\* the closure given to stream.filter
FilterKeep(item) == IF item.ok THEN item.s # <<>> ELSE TRUE

\* the request and the credential header are locals of chat_stream
NoRequest == [model |-> "", messages |-> <<>>, stream |-> FALSE, max_tokens |-> 0]
NoAuth == <<>>

NewCall(request, auth) ==
    [pc |-> "send", request |-> request, auth |-> auth, status |-> "",
     body_ok |-> TRUE, conn |-> "open", result |-> "", err |-> <<>>,
     stream |-> "none", exhausted |-> FALSE,
     recv |-> <<>>, mapped |-> <<>>, items |-> <<>>]

\* chat_stream up to send().await
chat_stream(system_message, user_message) ==
    /\ provider.state = "ok"
    /\ Len(calls) < MaxCalls
    /\ calls' = Append(calls,
                  NewCall(create_request(provider, system_message, user_message),
                          <<"Bearer ", provider.api_key>>))
    /\ UNCHANGED <<line, parsed, provider, events>>

\* send().await fails: map_err to NetworkError and return
send_failed(c, e) ==
    /\ c \in 1..Len(calls)
    /\ calls[c].pc = "send"
    /\ calls' = [calls EXCEPT ![c] =
                   [@ EXCEPT !.pc = "returned", !.result = "NetworkError",
                             !.err = <<e>>, !.conn = "released",
                             !.request = NoRequest, !.auth = NoAuth]]
    /\ UNCHANGED <<line, parsed, provider, events>>

\* send().await succeeds: the status check, then either text().await or the
\* construction of the mapped and filtered stream
send_done(c, status) ==
    /\ c \in 1..Len(calls)
    /\ calls[c].pc = "send"
    /\ calls' = [calls EXCEPT ![c] =
                   IF ~is_success(status)
                   THEN [@ EXCEPT !.pc = "error_text", !.status = status]
                   ELSE [@ EXCEPT !.pc = "returned", !.status = status,
                                  !.result = "Ok", !.stream = "live",
                                  !.request = NoRequest, !.auth = NoAuth]]
    /\ UNCHANGED <<line, parsed, provider, events>>

\* (variant) text().await with its error propagated by `?`
error_text_propagate(c, body) ==
    /\ c \in 1..Len(calls)
    /\ calls[c].pc = "error_text"
    /\ calls' = [calls EXCEPT ![c] =
                   [@ EXCEPT !.pc = "returned",
                             !.result = IF body.ok THEN "ApiError" ELSE "NetworkError",
                             !.body_ok = body.ok,
                             !.err = IF body.ok
                                     THEN <<"NanoGPT API error: ", body.text>>
                                     ELSE <<"body unreadable">>,
                             !.conn = "released",
                             !.request = NoRequest, !.auth = NoAuth]]
    /\ UNCHANGED <<line, parsed, provider, events>>

\* text().await returns: unwrap_or_else and return ApiError
error_text(c, body) ==
    /\ c \in 1..Len(calls)
    /\ calls[c].pc = "error_text"
    /\ calls' = [calls EXCEPT ![c] =
                   [@ EXCEPT !.pc = "returned", !.result = "ApiError",
                             !.body_ok = body.ok,
                             !.err = <<"NanoGPT API error: ",
                                       IF body.ok THEN body.text
                                       ELSE "Unknown error">>,
                             !.conn = "released",
                             !.request = NoRequest, !.auth = NoAuth]]
    /\ UNCHANGED <<line, parsed, provider, events>>

\* the stream after the transport item `result` gave `item` in the map
\* stage: the filter stage decides whether the caller receives it
Deliver(call, result, item) ==
    [call EXCEPT !.recv = Append(@, result),
                 !.mapped = Append(@, item),
                 !.items = IF FilterKeep(item) THEN Append(@, item) ELSE @]

\* (variant helpers) what follows the last line terminator of a chunk; the
\* unterminated end of the previous chunk; a chunk with that end in front
RECURSIVE Unterminated(_, _)
Unterminated(bytes, i) ==
    IF i = 0 \/ bytes[i] = LF THEN SubSeq(bytes, i + 1, Len(bytes))
    ELSE Unterminated(bytes, i - 1)

Held(recv) ==
    IF recv # <<>> /\ recv[Len(recv)].ok
    THEN Unterminated(recv[Len(recv)].bytes, Len(recv[Len(recv)].bytes))
    ELSE <<>>

Joined(held, result) ==
    IF result.ok THEN OkBytes(held \o result.bytes) ELSE result

LastContent(mapped) == IF mapped # <<>> THEN mapped[Len(mapped)].s ELSE <<>>

After(before, fresh) == IF fresh.ok THEN OkItem(before \o fresh.s) ELSE fresh

DeliverShared(c, result, item) ==
    [i \in 1..Len(calls) |->
        [calls[i] EXCEPT
            !.recv = IF i = c THEN Append(@, result) ELSE @,
            !.mapped = IF i = c THEN Append(@, item) ELSE @,
            !.items = IF i = 1 /\ FilterKeep(item) THEN Append(@, item) ELSE @]]

\* (variant) poll with a buffer joining an unterminated line to the next chunk
poll_carry(c, result) ==
    /\ c \in 1..Len(calls)
    /\ calls[c].stream = "live"
    /\ ~calls[c].exhausted
    /\ events' = events + 1
    /\ calls' = [calls EXCEPT ![c] =
                   Deliver(@, result, MapChunk(Joined(Held(@.recv), result)))]
    /\ UNCHANGED <<line, parsed, provider>>

\* (variant) poll with the content string declared outside the closure, so
\* that it is not reset between chunks
poll_accumulate(c, result) ==
    /\ c \in 1..Len(calls)
    /\ calls[c].stream = "live"
    /\ ~calls[c].exhausted
    /\ events' = events + 1
    /\ calls' = [calls EXCEPT ![c] =
                   Deliver(@, result, After(LastContent(@.mapped), MapChunk(result)))]
    /\ UNCHANGED <<line, parsed, provider>>

\* (variant) poll delivering into one item queue shared by all calls
poll_shared(c, result) ==
    /\ c \in 1..Len(calls)
    /\ calls[c].stream = "live"
    /\ ~calls[c].exhausted
    /\ events' = events + 1
    /\ calls' = DeliverShared(c, result, MapChunk(result))
    /\ UNCHANGED <<line, parsed, provider>>

\* the caller polls the ChatStream and the transport has an item
poll(c, result) ==
    /\ c \in 1..Len(calls)
    /\ calls[c].stream = "live"
    /\ ~calls[c].exhausted
    /\ events' = events + 1
    /\ calls' = [calls EXCEPT ![c] = Deliver(@, result, MapChunk(result))]
    /\ UNCHANGED <<line, parsed, provider>>

\* the caller polls and the body has ended
poll_end(c) ==
    /\ c \in 1..Len(calls)
    /\ calls[c].stream = "live"
    /\ ~calls[c].exhausted
    /\ calls' = [calls EXCEPT ![c] =
                   [@ EXCEPT !.exhausted = TRUE, !.conn = "released"]]
    /\ UNCHANGED <<line, parsed, provider, events>>

\* (variant) drop of a stream that does not own the response body
drop_leak(c) ==
    /\ c \in 1..Len(calls)
    /\ calls[c].stream = "live"
    /\ calls' = [calls EXCEPT ![c] = [@ EXCEPT !.stream = "dropped"]]
    /\ UNCHANGED <<line, parsed, provider, events>>

\* the caller drops the ChatStream: the boxed stream owns the response body
drop(c) ==
    /\ c \in 1..Len(calls)
    /\ calls[c].stream = "live"
    /\ calls' = [calls EXCEPT ![c] =
                   [@ EXCEPT !.stream = "dropped", !.conn = "released"]]
    /\ UNCHANGED <<line, parsed, provider, events>>

CallIds == 1..MaxCalls

Init ==
    /\ line = <<>>
    /\ parsed = <<>>
    /\ provider = NoProvider
    /\ calls = <<>>
    /\ events = 0

Next ==
    \/ \E config \in Configs, built \in BOOLEAN : new(config, built)
    \/ \E sm \in SystemMessages, um \in UserMessages : chat_stream(sm, um)
    \/ \E c \in CallIds : send_failed(c, "connection refused")
    \/ \E c \in CallIds, status \in Statuses : send_done(c, status)
    \/ \E c \in CallIds, body \in BodyResults : error_text(c, body)
    \/ \E c \in CallIds, result \in SharedResults :
          events < MaxEvents /\ poll(c, result)
    \/ \E c \in CallIds : poll_end(c)
    \/ \E c \in CallIds : drop(c)

Spec == Init /\ [][Next]_vars

----------------------------------------------------------------------------
(* SpecStream: one call whose request was answered with a success status,  *)
(* fed every sequence of at most MaxChunks transport outcomes.             *)

OkProvider(config) ==
    [state |-> "ok", model |-> config.model, api_key |-> config.api_key,
     config |-> config, built |-> TRUE]

LiveCall ==
    [NewCall(NoRequest, NoAuth) EXCEPT
        !.pc = "returned", !.status = "200", !.result = "Ok", !.stream = "live"]

InitStream ==
    /\ line = <<>>
    /\ parsed = <<>>
    /\ provider \in {OkProvider(config) : config \in Configs}
    /\ calls = <<LiveCall>>
    /\ events = 0

NextStream ==
    \/ \E result \in TransportResults : events < MaxChunks /\ poll(1, result)
    \/ poll_end(1)
    \/ drop(1)

SpecStream == InitStream /\ [][NextStream]_vars

----------------------------------------------------------------------------
(* SpecSplit: one call on whose body the transport cuts an event line in   *)
(* two: the first chunk ends inside the line, the next chunk starts with   *)
(* the rest of it.                                                         *)

SplitTexts == {ContentLine(Hi), ContentLine(Hi) \o <<SP>>}
SplitBefore == {<<>>, KeepAlive \o <<LF>>}
SplitAfter ==
    {<<LF, LF>>, <<CR, LF>>, <<LF>> \o ContentLine(<<"x">>) \o <<LF, LF>>}

\* k: the number of lexemes of the line that travel in the first chunk
SplitInputs ==
    UNION {{[before |-> b, text |-> t, k |-> k, after |-> a] :
               b \in SplitBefore, k \in 1..(Len(t) - 1), a \in SplitAfter} :
           t \in SplitTexts}

FirstPart(in) == in.before \o SubSeq(in.text, 1, in.k)
RestPart(in) == SubSeq(in.text, in.k + 1, Len(in.text)) \o in.after

InitSplit ==
    /\ line \in SplitInputs
    /\ parsed = <<>>
    /\ provider \in {OkProvider(config) : config \in Configs}
    /\ calls = <<LiveCall>>
    /\ events = 0

deliver_first == Len(calls[1].recv) = 0 /\ poll(1, OkBytes(FirstPart(line)))

deliver_rest == Len(calls[1].recv) = 1 /\ poll(1, OkBytes(RestPart(line)))

NextSplit == deliver_first \/ deliver_rest \/ poll_end(1) \/ drop(1)

SpecSplit == InitSplit /\ [][NextSplit]_vars

----------------------------------------------------------------------------
(* SpecLine: parse_sse_line applied to every line of Lines. *)

InitLine ==
    /\ line \in Lines
    /\ parsed = <<>>
    /\ provider = NoProvider
    /\ calls = <<>>
    /\ events = 0

ParseLine ==
    /\ parsed = <<>>
    /\ parsed' = <<parse_sse_line(line)>>
    /\ UNCHANGED <<line, provider, calls, events>>

NextLine == ParseLine

SpecLine == InitLine /\ [][NextLine]_vars

----------------------------------------------------------------------------
(* Properties *)

Calls == 1..Len(calls)
Hello == He \o Llo

\* C1 (as stated): for every configuration new succeeds, and name() is the
\* configured provider identifier and model() the configured model name
\* (read in the claim's favour: in an environment where the HTTP client can
\* be built).
C1_AsStated ==
    (provider.state # "none" /\ provider.built) =>
        /\ provider.state = "ok"
        /\ name(provider) = provider.config.provider
        /\ model(provider) = provider.config.model

\* C1 (amended): new succeeds whenever the HTTP client can be built; from
\* then on, whatever chat_stream calls are made, model() is the configured
\* model name and name() is the fixed identifier "nanogpt", which is the
\* configured provider identifier only when that one is "nanogpt".
C1_NameAndModel ==
    provider.state # "none" =>
        /\ provider.built => provider.state = "ok"
        /\ provider.state = "ok" =>
              /\ model(provider) = provider.config.model
              /\ name(provider) = "nanogpt"
              /\ (name(provider) = provider.config.provider
                    <=> provider.config.provider = "nanogpt")

C1_Witness ==
    /\ provider.state = "ok"
    /\ provider.config.provider = "openai"
    /\ \E c \in Calls : calls[c].items # <<>>

\* C2: parse_sse_line yields the fragment F exactly when the line is
\* "data: " followed by a payload that parses as an event of kind
\* chat.completion.chunk whose choice 0 has a delta with content F, and
\* yields nothing for every other line.
RuleFragments(l) ==
    IF HasDataPrefix(l)
    THEN LET ev == from_str(StripDataPrefix(l)) IN
         {F \in (IF ev.ok /\ Len(ev.val.choices) >= 1
                 THEN {ev.val.choices[1].delta.content.s} ELSE {}) :
             /\ ev.val.object = ChunkKind
             /\ ev.val.choices[1].delta.some
             /\ ev.val.choices[1].delta.content.some}
    ELSE {}

C2_LineRule ==
    parsed # <<>> =>
        /\ parsed[1].some <=> RuleFragments(line) # {}
        /\ parsed[1].some => parsed[1].s \in RuleFragments(line)
        /\ ~parsed[1].some => parsed[1] = None
        /\ (line = <<>> \/ line = KeepAlive) => parsed[1] = None
        /\ line = <<DataTag, SP>> \o HiEvent => parsed[1] = Some(Hi)
        /\ line = <<DataTag, SP>> \o RenderEvent("other", TRUE, <<"x">>)
              => parsed[1] = None
        /\ line = <<DataTag, SP, P("not-json")>> => parsed[1] = None
        /\ line = <<DataTag, SP>> \o RenderEvent("chunk", TRUE, <<"empty">>)
              => parsed[1] = Some(<<>>)

C2_Witness ==
    /\ line = <<DataTag, SP>> \o RenderEvent("chunk", TRUE, <<"noDelta", "x">>)
    /\ parsed = <<None>>

\* C3: a call answered with a non-success status returns ApiError, never has
\* a stream and never yields an item; when the body cannot be read the error
\* is still ApiError and carries the placeholder text.
C3_ApiError ==
    \A c \in Calls :
        (calls[c].status # "" /\ ~is_success(calls[c].status)) =>
            /\ calls[c].stream = "none"
            /\ calls[c].recv = <<>> /\ calls[c].items = <<>>
            /\ calls[c].pc = "returned" =>
                  /\ calls[c].result = "ApiError"
                  /\ calls[c].err =
                        <<"NanoGPT API error: ",
                          IF calls[c].body_ok THEN "quota exceeded"
                          ELSE "Unknown error">>

C3_Witness ==
    \E c \in Calls :
        /\ calls[c].status = "401" /\ calls[c].pc = "returned"
        /\ ~calls[c].body_ok

\* C4: no item the caller receives is a successful empty string.
C4_NoEmptyItem ==
    \A c \in Calls : \A i \in 1..Len(calls[c].items) :
        ~(calls[c].items[i].ok /\ calls[c].items[i].s = <<>>)

C4_Witness ==
    \E c \in Calls :
        /\ calls[c].recv =
              <<OkBytes(EmptyContentChunk), OkBytes(KeepAliveChunk),
                OkBytes(HelloChunk)>>
        /\ calls[c].items = <<OkItem(Hello)>>

\* C5: the error items of a stream are exactly the transport failures, in
\* order, each as one NetworkError; no chunk content produces an error item.
Failures(recv) == SelectSeq(recv, LAMBDA r : ~r.ok)
ErrorItems(items) == SelectSeq(items, LAMBDA it : ~it.ok)

C5_ErrorsAreTransportFailures ==
    \A c \in Calls :
        LET f == Failures(calls[c].recv)
            e == ErrorItems(calls[c].items)
        IN  /\ Len(e) = Len(f)
            /\ \A i \in 1..Len(e) : e[i] = ErrItem("NetworkError", f[i].err)
            /\ \A i \in 1..Len(calls[c].recv) :
                   calls[c].recv[i].ok => calls[c].mapped[i].ok

C5_Witness ==
    \E c \in Calls :
        /\ calls[c].recv =
              <<ErrBytes("timed out"), OkBytes(LossyChunk),
                ErrBytes("connection reset")>>
        /\ calls[c].items =
              <<ErrItem("NetworkError", "timed out"),
                OkItem(<<"h", Replacement>>),
                ErrItem("NetworkError", "connection reset")>>

\* C6: a chunk gives at most one item, the concatenation in line order of the
\* fragments of its lines; the successful items are these per-chunk outputs
\* in chunk order with the empty ones removed.
RECURSIVE Concat(_)
Concat(ss) == IF ss = <<>> THEN <<>> ELSE Head(ss) \o Concat(Tail(ss))

LineFragments(bytes) ==
    LET ls == lines(from_utf8_lossy(bytes)) IN
    [i \in 1..Len(ls) |->
        IF parse_sse_line(ls[i]).some THEN parse_sse_line(ls[i]).s ELSE <<>>]

ChunkOutputs(recv) ==
    LET oks == SelectSeq(recv, LAMBDA r : r.ok)
        outs == [i \in 1..Len(oks) |-> OkItem(Concat(LineFragments(oks[i].bytes)))]
    IN  SelectSeq(outs, LAMBDA it : it.s # <<>>)

C6_ChunkOutputsInOrder ==
    \A c \in Calls :
        /\ SelectSeq(calls[c].items, LAMBDA it : it.ok) = ChunkOutputs(calls[c].recv)
        /\ Len(calls[c].items) <= Len(calls[c].recv)
        /\ \A i \in 1..Len(calls[c].recv) :
               calls[c].recv[i] = OkBytes(HelloChunk)
                   => calls[c].mapped[i] = OkItem(<<"H", "e", "l", "l", "o">>)

C6_Witness ==
    \E c \in Calls :
        /\ calls[c].recv =
              <<OkBytes(LossyChunk), OkBytes(NoiseChunk), OkBytes(HelloChunk)>>
        /\ calls[c].items = <<OkItem(<<"h", Replacement>>), OkItem(Hello)>>

KeptItem(item) == IF FilterKeep(item) THEN <<item>> ELSE <<>>

RECURSIVE Alone(_)
Alone(recv) ==
    IF recv = <<>> THEN <<>>
    ELSE KeptItem(MapChunk(Head(recv))) \o Alone(Tail(recv))

C9_ItemsAlone == \A c \in Calls : calls[c].items = Alone(calls[c].recv)

C9_Independent ==
    /\ C9_ItemsAlone
    /\ provider.state = "ok" => provider = OkProvider(provider.config)

C9_Witness ==
    \E c \in Calls, d \in Calls :
        /\ c < d
        /\ calls[c].recv = <<OkBytes(SplitHead)>>
        /\ calls[d].recv = <<OkBytes(HelloChunk)>>
        /\ calls[c].items = <<>>
        /\ calls[d].items = <<OkItem(Hello)>>

\* C10 (as stated): when an event line is split across two chunks, neither
\* chunk yields the content fragment of that event.
NoFragmentOf(item) == \A j \in 1..Len(item.s) : item.s[j] \notin {"h", "i"}

C10_AsStated ==
    \A i \in 1..Len(calls[1].mapped) : NoFragmentOf(calls[1].mapped[i])

\* C10 (amended): when the split falls inside the "data: " prefix or inside
\* the JSON payload, neither chunk yields the fragment and it never reaches
\* the caller; when it falls in white space that trails the payload, the
\* first chunk holds the whole event and yields its fragment.
RECURSIVE LastNonWs(_, _)
LastNonWs(t, i) == IF i = 0 \/ ~IsWs(t[i]) THEN i ELSE LastNonWs(t, i - 1)

C10_NotReassembled ==
    LET m == calls[1].mapped IN
    IF line.k < LastNonWs(line.text, Len(line.text))
    THEN /\ \A i \in 1..Len(m) : NoFragmentOf(m[i])
         /\ \A i \in 1..Len(calls[1].items) : NoFragmentOf(calls[1].items[i])
    ELSE /\ Len(m) >= 1 => m[1] = OkItem(Hi)
         /\ Len(m) >= 2 => NoFragmentOf(m[2])

C10_Witness ==
    /\ line.k < LastNonWs(line.text, Len(line.text))
    /\ parse_sse_line(line.text) = Some(Hi)
    /\ Len(calls[1].recv) = 2
    /\ calls[1].recv[1].bytes \o calls[1].recv[2].bytes
          = line.before \o line.text \o line.after
    /\ calls[1].items = <<OkItem(<<"x">>)>>

====
